---- MODULE Spec2Model ----
(***************************************************************************)
(* Ring signatures of crypto/ring/ring.go: GenNewKeyRing, Sign and Verify. *)
(*                                                                         *)
(* The elliptic curve is y^2 = x^3 + 4x + 3 over the field of P = 5        *)
(* elements; its group has prime order N = 3 < P, as the group of          *)
(* secp256k1 has a prime order below its field prime.  Points are pairs    *)
(* <<X, Y>>, the point at infinity is <<0, 0>>.                            *)
(* A Go pointer that may be nil (a big.Int, a RingSign) is a sequence of   *)
(* length 0 (nil) or 1 (the value pointed to).  An ecdsa.PublicKey pointer *)
(* is a record [addr, X, Y]: addr is the identity of the object pointed to *)
(* (-1 for nil, 0 for the PublicKey embedded in the caller's private key,  *)
(* k > 0 for any other object), X and Y its coordinates.                   *)
(***************************************************************************)
EXTENDS Integers, Sequences, FiniteSets, TLC

\* ------------------------------------------------------------------ bounds
MaxRing == 3        \* largest ring GenNewKeyRing is asked for
MaxAssembled == 2   \* largest ring the caller puts together itself
MaxForge == 2       \* largest Size and slice length of a hand-made RingSign
MaxTamperRing == 2  \* largest ring of a signature that is tampered with

\* ------------------------------------------------------- curve (collaborator)
P == 5              \* curve.Params().P, the field prime
N == 3              \* curve.Params().N, the group order
G == <<2, 2>>       \* the base point

Inf == <<0, 0>>

OnCurve == {pt \in (0..P-1) \X (0..P-1) : (pt[2]*pt[2] - pt[1]*pt[1]*pt[1] - 4*pt[1] - 3) % P = 0}
             \cup {Inf}

ModInverse(a) == CHOOSE b \in 1..P-1 : (a * b) % P = 1

\* the slope of the line through p and q (the tangent when p = q)
Slope(p, q) ==
    IF p = q
    THEN ((3 * p[1] * p[1] + 4) * ModInverse((2 * p[2]) % P)) % P
    ELSE ((q[2] - p[2]) * ModInverse((q[1] - p[1]) % P)) % P

AddPoints(p, q) ==
    IF p = Inf THEN q
    ELSE IF q = Inf THEN p
    ELSE IF p[1] = q[1] /\ (p[2] + q[2]) % P = 0 THEN Inf
    ELSE LET lam == Slope(p, q)
             x3 == (lam * lam - p[1] - q[1]) % P
             y3 == (lam * (p[1] - x3) - p[2]) % P
         IN <<x3, y3>>

AddTable == [p \in OnCurve |-> [q \in OnCurve |-> AddPoints(p, q)]]

\* curve.Add(x1, y1, x2, y2)
Add(p, q) == AddTable[p][q]

\* k*pt by doubling and adding, k a natural number
Double(p) == AddTable[p][p]

RECURSIVE DoubleAndAdd(_, _)
DoubleAndAdd(pt, k) ==
    IF k = 0 \/ pt = Inf THEN Inf
    ELSE Add(Double(DoubleAndAdd(pt, k \div 2)), IF k % 2 = 1 THEN pt ELSE Inf)

\* k*pt for k < N, and N*pt, of every point: k*pt = (k div N)*(N*pt) + (k mod N)*pt
MulTable == [p \in OnCurve |-> [k \in 0..N |-> DoubleAndAdd(p, k)]]

Mul(pt, k) == Add(DoubleAndAdd(MulTable[pt][N], k \div N), MulTable[pt][k % N])

\* ------------------------------------------------------------ big.Int bytes
\* big.Int.Bytes(): the big-endian bytes of the ABSOLUTE value, no sign.
RECURSIVE NatBytes(_)
NatBytes(v) == IF v = 0 THEN <<>> ELSE Append(NatBytes(v \div 256), v % 256)

Bytes(v) == NatBytes(IF v < 0 THEN -v ELSE v)

\* big.Int.SetBytes(buf): buf read as a big-endian unsigned integer.
RECURSIVE SetBytes(_)
SetBytes(b) ==
    IF b = <<>> THEN 0
    ELSE SetBytes(SubSeq(b, 1, Len(b) - 1)) * 256 + b[Len(b)]

\* curve.ScalarMult(Bx, By, k): k is a byte string read as an unsigned integer.
ScalarMult(pt, k) == Mul(pt, SetBytes(k))

\* curve.ScalarBaseMult(k)
ScalarBaseMult(k) == ScalarMult(G, k)

\* --------------------------------------------------------------------- hash
\* the messages: Sign is given one of Msgs, a tampering may put in another
Msgs == {<<1>>, <<2>>}
AllMsgs == {<<1>>, <<2>>}

\* sha3.Sum256 as an injective map of the byte strings that occur (every
\* byte is below 16): the digest is the string read in base 16 behind a
\* leading 1, so no two inputs collide.
RECURSIVE Digest(_)
Digest(b) == IF b = <<>> THEN 1 ELSE Digest(SubSeq(b, 1, Len(b) - 1)) * 16 + b[Len(b)]

Sum256(b) == NatBytes(Digest(b))

\* new(big.Int).SetBytes(sha3.Sum256(append(m, append(x.Bytes(), y.Bytes()...)...)))
ChallengeTable ==
    [m \in AllMsgs |-> [pt \in OnCurve |->
        SetBytes(Sum256(m \o Bytes(pt[1]) \o Bytes(pt[2])))]]

Challenge(m, pt) == ChallengeTable[m][pt]

\* --------------------------------------------------------------------- keys
\* the private scalars: every one the group has
Keys == 1..N-1

NilKey == [addr |-> -1, X |-> 0, Y |-> 0]

\* the ecdsa.PublicKey at address a holding the point d*G
KeyAt(a, d) ==
    LET pt == MulTable[G][d % N] IN [addr |-> a, X |-> pt[1], Y |-> pt[2]]

\* an ecdsa.PrivateKey: the scalar D and the embedded PublicKey
PrivateKey(d) == [D |-> d, PublicKey |-> KeyAt(0, d)]

\* privkey.Public(): the address of the embedded PublicKey
Public(privkey) == privkey.PublicKey

Point(key) == <<key.X, key.Y>>

\* ------------------------------------------------------------ GenNewKeyRing
\* GenIdx without the offset of the signer
GenIdxNoOffset(i, s, size) == i % size

\* idx := (i+s) % size
GenIdx(i, s, size) == (i + s) % size

\* the loop of GenNewKeyRing from iteration i on; gk[i] is what the i-th call
\* of crypto.GenerateKey returns: a private scalar, or 0 for an error.  The
\* key it allocates is a new object, at address i.
RECURSIVE GenLoop(_, _, _, _, _)
GenLoop(i, ring, size, s, gk) ==
    IF i >= size THEN ring
    ELSE IF gk[i] = 0 THEN <<>>
    ELSE GenLoop(i + 1, [ring EXCEPT ![GenIdx(i, s, size) + 1] = KeyAt(i, gk[i])],
                 size, s, gk)

GenNewKeyRing(size, privkey, s, gk) ==
    GenLoop(1, [[j \in 1..size |-> NilKey] EXCEPT ![s + 1] = Public(privkey)],
            size, s, gk)

\* --------------------------------------------------------------------- Sign
ErrSize == "size of ring less than two"
ErrRange == "secret index out of range of ring size"
ErrSigner == "secret index in ring is not signer"
ErrClose == "error closing ring"
ErrRand == "rand.Int failed"
Panic == "panic"

\* Validate with the index checked before the size
ValidateIndexFirst(ring, privkey, s) ==
    IF s >= Len(ring) \/ s < 0 THEN ErrRange
    ELSE IF Len(ring) < 2 THEN ErrSize
    ELSE IF ring[s + 1].addr # Public(privkey).addr THEN ErrSigner
    ELSE ""

\* the checks of Sign before anything is drawn: "" when all pass
Validate(ring, privkey, s) ==
    IF Len(ring) < 2 THEN ErrSize
    ELSE IF s >= Len(ring) \/ s < 0 THEN ErrRange
    ELSE IF ring[s + 1].addr # Public(privkey).addr THEN ErrSigner
    ELSE ""

\* rand.Int(rand.Reader, curve.Params().P): a value below P, or nil and an error
RandInt == {<<v>> : v \in 0..P-1} \cup {<<>>}

\* the slot the i-th iteration writes its challenge to
NextSlot(i, idx, s, ringsize) == IF i = ringsize - 1 THEN s ELSE (idx + 1) % ringsize

\* the loop of Sign from iteration i on; rnd[i+1] is the i-th draw of s_i.
\* st holds the locals C, S, the values drawn so far, the number of times
\* each slot of C was assigned (Cw) and the slots in the order assigned.
\* one iteration that drew s_i: S[idx] and the next challenge, from the point txy
Step(st, m, idx, slot, s_i, txy) ==
    [st EXCEPT !.S[idx + 1] = <<s_i>>,
               !.C[slot + 1] = <<Challenge(m, txy)>>,
               !.Cw[slot + 1] = @ + 1,
               !.order = Append(@, slot),
               !.drawn = Append(@, s_i)]

RECURSIVE SignLoop(_, _, _, _, _, _)
SignLoop(i, st, m, ring, s, rnd) ==
    IF i >= Len(ring) \/ st.err # "" THEN st
    ELSE IF rnd[i + 1] = <<>> THEN [st EXCEPT !.err = ErrRand]
    ELSE IF ring[((s + i) % Len(ring)) + 1].addr = -1 \/ st.C[((s + i) % Len(ring)) + 1] = <<>>
         THEN [st EXCEPT !.err = Panic,
                         !.S[((s + i) % Len(ring)) + 1] = rnd[i + 1],
                         !.drawn = Append(@, rnd[i + 1][1])]
    ELSE SignLoop(i + 1,
                  Step(st, m, (s + i) % Len(ring),
                       NextSlot(i, (s + i) % Len(ring), s, Len(ring)),
                       rnd[i + 1][1],
                       Add(ScalarBaseMult(Bytes(rnd[i + 1][1])),
                           ScalarMult(Point(ring[((s + i) % Len(ring)) + 1]),
                                      Bytes(st.C[((s + i) % Len(ring)) + 1][1])))),
                  m, ring, s, rnd)

\* S[s] = u - (C[s]*D mod N)
CloseRing(u, c, d) == u - ((c * d) % N)

\* ClosureFails with the test left out
ClosureNeverFails(txy, uxy, c1, cbig) == FALSE

\* the test of line 130: TRUE when the ring does not close
ClosureFails(txy, uxy, c1, cbig) ==
    \/ Bytes(txy[1]) # Bytes(uxy[1])
    \/ Bytes(txy[2]) # Bytes(uxy[2])
    \/ Bytes(c1) # Bytes(cbig)

\* InitialChallenge taking the last slot
InitialChallengeLast(C) == C[Len(C)]

\* sig.C = C[0]
InitialChallenge(C) == C[1]

\* what Sign returns before it has drawn anything: the error e and no signature
Failed(e) ==
    [err |-> e, sig |-> <<>>, drawn |-> <<>>, u |-> <<>>, U |-> Inf,
     C |-> <<>>, S |-> <<>>, Cw |-> <<>>, order |-> <<>>, T |-> Inf]

\* what Sign returns when it stops with error e after the loop state st
Stopped(e, st, u, uxy, S, txy) ==
    [err |-> e, sig |-> <<>>, drawn |-> st.drawn, u |-> <<u>>, U |-> uxy,
     C |-> st.C, S |-> S, Cw |-> st.Cw, order |-> st.order, T |-> txy]

\* lines 126-138: the self-check, then the signature
Emit(m, ring, s, st, u, uxy, S, txy) ==
    IF ClosureFails(txy, uxy, st.C[((s + 1) % Len(ring)) + 1][1], Challenge(m, txy))
    THEN Stopped(ErrClose, st, u, uxy, S, txy)
    ELSE IF InitialChallenge(st.C) = <<>> THEN Stopped(Panic, st, u, uxy, S, txy)
    ELSE [Stopped("", st, u, uxy, S, txy) EXCEPT
             !.sig = <<[Size |-> Len(ring), M |-> m, C |-> InitialChallenge(st.C),
                        S |-> S, Ring |-> ring]>>]

\* lines 119-124: the signer's response Ss and the point it gives back
Close(m, ring, s, st, u, uxy, Ss) ==
    Emit(m, ring, s, st, u, uxy, [st.S EXCEPT ![s + 1] = <<Ss>>],
         Add(ScalarBaseMult(Bytes(Ss)),
             ScalarMult(Point(ring[s + 1]), Bytes(st.C[s + 1][1]))))

\* Sign after its loop has left st
AfterLoop(m, ring, privkey, s, st, u, uxy) ==
    IF st.err # "" THEN Stopped(st.err, st, u, uxy, st.S, Inf)
    ELSE IF st.C[s + 1] = <<>> \/ st.C[((s + 1) % Len(ring)) + 1] = <<>>
         THEN Stopped(Panic, st, u, uxy, st.S, Inf)
    ELSE Close(m, ring, s, st, u, uxy, CloseRing(u, st.C[s + 1][1], privkey.D))

\* lines 88-116: the first challenge from u*G = uxy, then the loop
Chain(m, ring, privkey, s, rnd, u, uxy, idx) ==
    AfterLoop(m, ring, privkey, s,
              SignLoop(1,
                       [err |-> "",
                        C |-> [[j \in 1..Len(ring) |-> <<>>] EXCEPT
                                  ![idx + 1] = <<Challenge(m, uxy)>>],
                        S |-> [j \in 1..Len(ring) |-> <<>>],
                        Cw |-> [[j \in 1..Len(ring) |-> 0] EXCEPT ![idx + 1] = 1],
                        order |-> <<idx>>,
                        drawn |-> <<u>>],
                       m, ring, s, rnd),
              u, uxy)

\* Sign(m, ring, privkey, s) with the outcomes rnd of its draws (rnd[1] is u).
\* The result holds the two return values (sig is nil exactly when err is
\* set) and the locals at the return, for the properties to speak about.
Sign(m, ring, privkey, s, rnd) ==
    IF Validate(ring, privkey, s) # "" THEN Failed(Validate(ring, privkey, s))
    ELSE IF rnd[1] = <<>> THEN Failed(ErrRand)
    ELSE Chain(m, ring, privkey, s, rnd, rnd[1][1], ScalarBaseMult(Bytes(rnd[1][1])),
               (s + 1) % Len(ring))

\* ------------------------------------------------------------------- Verify
\* the loop of Verify from iteration i on: the local C, or a run-time panic
\* (index out of range, nil dereference)
RECURSIVE VerifyLoop(_, _, _)
VerifyLoop(i, C, sig) ==
    IF i >= sig.Size THEN [panic |-> FALSE, C |-> C]
    ELSE IF \/ i >= Len(sig.Ring)
            \/ sig.Ring[i + 1].addr = -1
            \/ C[i + 1] = <<>>
            \/ i >= Len(sig.S)
            \/ sig.S[i + 1] = <<>>
         THEN [panic |-> TRUE, C |-> C]
    ELSE VerifyLoop(i + 1,
                    [C EXCEPT ![(IF i = sig.Size - 1 THEN 0 ELSE i + 1) + 1] =
                        <<Challenge(sig.M,
                                    Add(ScalarBaseMult(Bytes(sig.S[i + 1][1])),
                                        ScalarMult(Point(sig.Ring[i + 1]),
                                                   Bytes(C[i + 1][1]))))>>],
                    sig)

\* line 166: the comparison of sig.C with the recomputed C[0]
Closes(sig, r) ==
    IF r.panic THEN Panic
    ELSE IF Bytes(sig.C[1]) = Bytes(r.C[1][1]) THEN "true" ELSE "false"

\* Verify(sig): "true" or "false" (the error returned is always nil), or
\* "panic" when the Go run time aborts the call
Verify(sig) ==
    IF sig.Size < 1 \/ Len(sig.Ring) = 0 THEN Panic
    ELSE IF sig.Ring[1].addr = -1 THEN Panic
    ELSE Closes(sig, VerifyLoop(0, [[j \in 1..sig.Size |-> <<>>] EXCEPT ![1] = sig.C], sig))

\* ===================================================================== state
VARIABLES
    pc,       \* what the caller did last: "init", "ring", "signed", "tampered",
              \* "forged" or "verified"
    privkey,  \* the caller's private key
    ring,     \* the ring the caller holds
    gen,      \* <<[size, s, gk]>> when ring was returned by GenNewKeyRing(size,
              \* privkey, s) and crypto.GenerateKey returned gk, else <<>>
    call,     \* <<[m, s]>>: the arguments of the call of Sign, else <<>>
    res,      \* what Sign returned, with its locals at the return
    sig,      \* the RingSign pointer the caller holds (nil: <<>>)
    origin,   \* where sig comes from: "", "Sign", "Tamper" or "Forge"
    tam,      \* <<[field, idx]>>: the field a tampering replaced, else <<>>
    vout      \* what Verify returned: "", "true", "false" or "panic"

vars == <<pc, privkey, ring, gen, call, res, sig, origin, tam, vout>>


NoResult == Failed("")

Init ==
    /\ pc = "init"
    /\ privkey \in {PrivateKey(d) : d \in Keys}
    /\ ring = <<>>
    /\ gen = <<>>
    /\ call = <<>>
    /\ res = NoResult
    /\ sig = <<>>
    /\ origin = ""
    /\ tam = <<>>
    /\ vout = ""

\* the caller builds its ring with GenNewKeyRing (size >= 1 and 0 <= s < size,
\* or the call indexes out of range)
CallGenNewKeyRing ==
    /\ pc = "init"
    /\ \E size \in 1..MaxRing : \E s \in 0..size-1 : \E gk \in [1..size-1 -> {0} \cup Keys] :
          /\ ring' = GenNewKeyRing(size, privkey, s, gk)
          /\ gen' = <<[size |-> size, s |-> s, gk |-> gk]>>
    /\ pc' = "ring"
    /\ UNCHANGED <<privkey, call, res, sig, origin, tam, vout>>

\* the caller assembles a ring itself: each entry is the pointer Public()
\* returns (k[j] = 0) or a key object of its own holding the point k[j]*G,
\* which may be the signer's point
AssembleRing ==
    /\ pc = "init"
    /\ \E n \in 0..MaxAssembled : \E k \in [1..n -> {0} \cup Keys] :
          ring' = [j \in 1..n |-> IF k[j] = 0 THEN Public(privkey) ELSE KeyAt(j, k[j])]
    /\ pc' = "ring"
    /\ UNCHANGED <<privkey, gen, call, res, sig, origin, tam, vout>>

CallSign ==
    /\ pc = "ring"
    /\ \E m \in Msgs : \E s \in -1..MaxRing :
       \E rnd \in [1..(IF Validate(ring, privkey, s) = "" THEN Len(ring) ELSE 0) -> RandInt] :
          /\ res' = Sign(m, ring, privkey, s, rnd)
          /\ call' = <<[m |-> m, s |-> s]>>
    /\ sig' = res'.sig
    /\ origin' = "Sign"
    /\ pc' = "signed"
    /\ UNCHANGED <<privkey, ring, gen, tam, vout>>

CallVerify ==
    /\ pc \in {"signed", "tampered", "forged"}
    /\ sig # <<>>
    /\ vout' = Verify(sig[1])
    /\ pc' = "verified"
    /\ UNCHANGED <<privkey, ring, gen, call, res, sig, origin, tam>>

Next == CallGenNewKeyRing \/ AssembleRing \/ CallSign \/ CallVerify

Spec == Init /\ [][Next]_vars

\* ------------------------------------------------ signatures from elsewhere
\* the integers a tampering puts in the place of v
Others(v) == {v + 1, v - 1, v + N, -v} \ {v}

\* the curve points that differ from pt in exactly one coordinate
OneCoordinateOff(pt) ==
    {q \in OnCurve \ {Inf} : (q[1] = pt[1]) # (q[2] = pt[2])}

\* one field of a signature Sign returned is replaced by a different value
Tamper ==
    /\ pc = "signed"
    /\ sig # <<>>
    /\ Len(sig[1].Ring) <= MaxTamperRing
    /\ \/ \E m \in AllMsgs \ {sig[1].M} :
             /\ sig' = <<[sig[1] EXCEPT !.M = m]>>
             /\ tam' = <<[field |-> "M", idx |-> 0]>>
       \/ \E c \in Others(sig[1].C[1]) :
             /\ sig' = <<[sig[1] EXCEPT !.C = <<c>>]>>
             /\ tam' = <<[field |-> "C", idx |-> 0]>>
       \/ \E i \in 0..Len(sig[1].S)-1 : \E v \in Others(sig[1].S[i + 1][1]) :
             /\ sig' = <<[sig[1] EXCEPT !.S[i + 1] = <<v>>]>>
             /\ tam' = <<[field |-> "S", idx |-> i]>>
       \/ \E i \in 0..Len(sig[1].Ring)-1 : \E q \in OneCoordinateOff(Point(sig[1].Ring[i + 1])) :
             /\ sig' = <<[sig[1] EXCEPT !.Ring[i + 1] =
                            [addr |-> MaxRing + 1 + i, X |-> q[1], Y |-> q[2]]]>>
             /\ tam' = <<[field |-> "Ring", idx |-> i]>>
    /\ origin' = "Tamper"
    /\ pc' = "tampered"
    /\ UNCHANGED <<privkey, ring, gen, call, res, vout>>

SeqsUpTo(n, S) == UNION {[1..k -> S] : k \in 0..n}

\* a RingSign value put together by hand: nothing ties Size to the slices
Forge ==
    /\ pc = "init"
    /\ \E size \in 0..MaxForge : \E c \in {<<>>, <<0>>, <<5>>} :
       \E S \in SeqsUpTo(MaxForge, {<<>>, <<1>>}) :
       \E R \in SeqsUpTo(MaxForge, {NilKey, KeyAt(1, 1)}) :
          sig' = <<[Size |-> size, M |-> <<1>>, C |-> c, S |-> S, Ring |-> R]>>
    /\ origin' = "Forge"
    /\ pc' = "forged"
    /\ UNCHANGED <<privkey, ring, gen, call, res, tam, vout>>

NextAdv == Next \/ Tamper \/ Forge

SpecAdv == Init /\ [][NextAdv]_vars

\* =================================================================== claims
\* the arguments of the call of Sign, once it was made
Called == call # <<>>
SignerIndex == call[1].s
InRange == Len(ring) >= 2 /\ SignerIndex >= 0 /\ SignerIndex < Len(ring)
SameCoordinates == Point(ring[SignerIndex + 1]) = Point(Public(privkey))
\* Sign got as far as its self-check: every draw succeeded and S[s] was computed
ReachedCheck == Called /\ res.err \in {"", ErrClose}

\* C1: whenever ring has at least two keys, ring[s] is the public key of the
\* private key and no draw fails, Sign returns a signature and no error, and
\* Verify returns true on it.
C1_Completeness ==
    (Called /\ InRange /\ SameCoordinates /\ res.err # ErrRand) =>
        /\ res.err = ""
        /\ res.sig # <<>>
        /\ (pc = "verified" /\ origin = "Sign") => vout = "true"

\* C2: the first failing check of Sign decides the error: a ring shorter than
\* two gives the size error whatever the index is, else an index outside the
\* ring gives the range error whatever the key is, else a ring[s] that is not
\* the signer's point gives the signer error; each returns no signature and
\* draws nothing.
C2_ValidationOrder ==
    Called =>
        /\ Len(ring) < 2 => res.err = ErrSize
        /\ (Len(ring) >= 2 /\ ~InRange) => res.err = ErrRange
        /\ (InRange /\ ~SameCoordinates) => res.err = ErrSigner
        /\ res.err \in {ErrSize, ErrRange, ErrSigner} =>
              (res.sig = <<>> /\ res.drawn = <<>> /\ res.u = <<>>)

C2_Witness ==
    /\ Called
    /\ Len(ring) = 1
    /\ SignerIndex = MaxRing
    /\ ring[1].addr # 0
    /\ res.err = ErrSize

\* C3: with the index in range, Sign returns the signer error exactly when the
\* coordinates of ring[s] differ from those of the private key's public key.
C3_ValueComparison ==
    (Called /\ InRange) => (res.err = ErrSigner <=> ~SameCoordinates)

\* C4: after exactly one field of a signature returned by Sign is replaced by
\* a different value (the message, C, one S[i], or one coordinate of one
\* ring[i]), Verify returns false.
C4_TamperDetected ==
    (pc = "verified" /\ origin = "Tamper") => vout = "false"

\* C5: Verify returns a boolean for every RingSign value, whatever its Size,
\* slices and pointers are; it never aborts.
C5_VerifyTotal ==
    pc = "verified" => vout \in {"true", "false"}

C7_CanonicalResponse ==
    ReachedCheck =>
        /\ res.S[SignerIndex + 1][1] =
              (res.u[1] - res.C[SignerIndex + 1][1] * privkey.D) % N
        /\ res.S[SignerIndex + 1][1] \in 0..N-1
        /\ res.T = res.U

\* C8: every scalar Sign draws, u and each s_i, is below the group order N.
C8_DrawsBelowOrder ==
    \A i \in 1..Len(res.drawn) : res.drawn[i] < N

\* C9: a signature Sign returns has Size = len(Ring) = len(S) = n with the
\* caller's ring, every S[i] set, every slot of C assigned exactly once, in
\* the order s+1, s+2, ..., s (mod n), and its C is slot 0 of that chain.
C9_Structure ==
    (Called /\ res.sig # <<>>) =>
        /\ res.sig[1].Size = Len(ring)
        /\ res.sig[1].Ring = ring
        /\ Len(res.sig[1].S) = Len(ring)
        /\ \A j \in 1..Len(ring) : res.sig[1].S[j] # <<>>
        /\ res.Cw = [j \in 1..Len(ring) |-> 1]
        /\ res.order = [k \in 1..Len(ring) |-> (SignerIndex + k) % Len(ring)]
        /\ res.sig[1].C # <<>>
        /\ res.sig[1].C = res.C[1]

C9_Witness ==
    /\ Called
    /\ res.sig # <<>>
    /\ Len(ring) = MaxRing
    /\ SignerIndex = Len(ring) - 1
    /\ res.C[1] # res.C[Len(ring)]

\* C10: when the point S[s]*G + C[s]*ring[s] differs from u*G, or its hash from
\* the challenge stored at s+1, Sign returns the closing error and no
\* signature; and Verify returns true on every signature Sign returns.
C10_ClosureChecked ==
    /\ (/\ ReachedCheck
        /\ \/ res.T # res.U
           \/ <<Challenge(call[1].m, res.T)>> # res.C[((SignerIndex + 1) % Len(ring)) + 1])
          => (res.err = ErrClose /\ res.sig = <<>>)
    /\ (pc = "verified" /\ origin = "Sign") => vout = "true"

C10_Witness ==
    /\ ReachedCheck
    /\ res.T # res.U
    /\ res.err = ErrClose
    /\ sig = <<>>

====
